---- MODULE Spec2Model ----
(***************************************************************************)
(* Flask-Breadcrumb: the route catalog (Breadcrumb._get_routes) and the    *)
(* tree builder (Breadcrumb._build_breadcrumb_tree) of                     *)
(* src/flask_breadcrumb/__init__.py.                                       *)
(*                                                                         *)
(* Python strings are sequences of one-character strings, so that slicing, *)
(* splitting, prefix tests and the regular expressions of the source are   *)
(* computed character by character.  A tree is the nested dictionary the   *)
(* source returns: [text, url, order, is_current_path, children].          *)
(***************************************************************************)
EXTENDS Integers, Sequences, FiniteSets, TLC

VARIABLES url_map, breadcrumb_metadata, routes_cache, request_path, result, invoked,
          walk, builds, threads

vars == <<url_map, breadcrumb_metadata, routes_cache, request_path, result, invoked,
          walk, builds, threads>>

(***************************************************************************)
(* Python str                                                              *)
(***************************************************************************)

\* The characters of the model in code point order ('-' 45, '/' 47, '<' 60,
\* '>' 62, '_' 95, then the lower case letters).
Alphabet == <<"-", "/", "<", ">", "_", "a", "b", "c", "i", "s", "t", "x">>

Ord(ch) == CHOOSE i \in 1..Len(Alphabet) : Alphabet[i] = ch

\* s < t for Python strings: lexicographic by code point.
RECURSIVE StrLess(_, _)
StrLess(s, t) ==
    IF t = <<>> THEN FALSE
    ELSE IF s = <<>> THEN TRUE
    ELSE IF s[1] = t[1] THEN StrLess(Tail(s), Tail(t))
    ELSE Ord(s[1]) < Ord(t[1])

\* s.startswith(p)
StartsWith(s, p) == Len(s) >= Len(p) /\ SubSeq(s, 1, Len(p)) = p

\* s.rstrip("/")
RECURSIVE RStripSlash(_)
RStripSlash(s) ==
    IF s # <<>> /\ s[Len(s)] = "/" THEN RStripSlash(SubSeq(s, 1, Len(s) - 1)) ELSE s

\* s.split("/"): the list of the parts between the separators.
RECURSIVE SplitFrom(_, _)
SplitFrom(s, part) ==
    IF s = <<>> THEN <<part>>
    ELSE IF s[1] = "/" THEN <<part>> \o SplitFrom(Tail(s), <<>>)
    ELSE SplitFrom(Tail(s), Append(part, s[1]))

Split(s) == SplitFrom(s, <<>>)

\* "/".join(parts)
RECURSIVE Join(_)
Join(parts) ==
    IF parts = <<>> THEN <<>>
    ELSE IF Len(parts) = 1 THEN parts[1]
    ELSE parts[1] \o <<"/">> \o Join(Tail(parts))

\* The index of the first '>' of s at or after position i, 0 when there is none.
RECURSIVE FirstClose(_, _)
FirstClose(s, i) ==
    IF i > Len(s) THEN 0
    ELSE IF s[i] = ">" THEN i
    ELSE FirstClose(s, i + 1)

\* re.sub(r"<[^>]+>", "", s) from position i on: a match starts at a '<', takes at
\* least one character other than '>' and ends at the first '>' after them.
RECURSIVE StripVariablesFrom(_, _)
StripVariablesFrom(s, i) ==
    IF i > Len(s) THEN <<>>
    ELSE IF s[i] = "<" /\ FirstClose(s, i + 1) > i + 1
         THEN StripVariablesFrom(s, FirstClose(s, i + 1) + 1)
         ELSE <<s[i]>> \o StripVariablesFrom(s, i + 1)

StripVariables(s) == StripVariablesFrom(s, 1)

\* re.sub(r"//+", "/", s): every run of two or more '/' becomes one '/'.
RECURSIVE CollapseSlashes(_)
CollapseSlashes(s) ==
    IF Len(s) < 2 THEN s
    ELSE IF s[1] = "/" /\ s[2] = "/" THEN CollapseSlashes(Tail(s))
    ELSE <<s[1]>> \o CollapseSlashes(Tail(s))

Root == <<"/">>

\* None, for an optional value kept as a list of at most one element.
None == <<>>

Home == <<"H", "o", "m", "e">>

Letters == <<"a", "b", "c", "i", "s", "t", "x">>

Capitals == <<"A", "B", "C", "I", "S", "T", "X">>

IsLetter(ch) == \E i \in 1..Len(Letters) : Letters[i] = ch \/ Capitals[i] = ch

Upper(ch) ==
    IF \E i \in 1..Len(Letters) : Letters[i] = ch
    THEN Capitals[CHOOSE i \in 1..Len(Letters) : Letters[i] = ch]
    ELSE ch

Lower(ch) ==
    IF \E i \in 1..Len(Capitals) : Capitals[i] = ch
    THEN Letters[CHOOSE i \in 1..Len(Capitals) : Capitals[i] = ch]
    ELSE ch

\* s.replace("-", " ").replace("_", " ")
ReplaceSeparators(s) == [i \in 1..Len(s) |-> IF s[i] \in {"-", "_"} THEN " " ELSE s[i]]

\* s.title(): a letter that follows a non-letter is upper case, any other lower case.
Title(s) ==
    [i \in 1..Len(s) |->
        IF i = 1 \/ ~IsLetter(s[i - 1]) THEN Upper(s[i]) ELSE Lower(s[i])]

(***************************************************************************)
(* Breadcrumb: the helpers of the tree builder                            *)
(***************************************************************************)

\* Breadcrumb._get_parent_url
_get_parent_url(url) ==
    LET stripped == RStripSlash(url)
        parts == Split(stripped)
    IN  IF stripped = <<>> THEN Root
        ELSE IF Len(parts) <= 2 THEN Root
        ELSE Join(SubSeq(parts, 1, Len(parts) - 1))

\* Breadcrumb._is_child_of
_is_child_of(child_url, parent_url) ==
    IF parent_url = Root THEN child_url # Root
    ELSE LET parent_len == Len(parent_url)
         IN  /\ Len(child_url) > parent_len + 1
             /\ SubSeq(child_url, 1, parent_len) = parent_url
             /\ child_url[parent_len + 1] = "/"

\* Breadcrumb._generate_default_text
_generate_default_text(url) ==
    LET stripped == RStripSlash(url)
        parts == Split(stripped)
        last_part == Title(ReplaceSeparators(parts[Len(parts)]))
    IN  IF stripped = <<>> THEN Home
        ELSE IF last_part = <<>> THEN Home ELSE last_part

\* The canonical url of a rule: the body of the loop of Breadcrumb._get_routes.
Canonical(rule) ==
    LET collapsed == CollapseSlashes(StripVariables(rule))
    IN  IF collapsed # Root /\ collapsed # <<>> /\ collapsed[Len(collapsed)] = "/"
        THEN SubSeq(collapsed, 1, Len(collapsed) - 1)
        ELSE collapsed

\* Line 362: the tuple appended for a rule.
RouteEntry(rule) ==
    [url |-> Canonical(rule.rule), endpoint |-> rule.endpoint, methods |-> rule.methods]

\* The list Breadcrumb._get_routes computes from the url map.
ComputeRoutes(map) == [i \in 1..Len(map) |-> RouteEntry(map[i])]

\* A build that consumes the list it is given: the cached list comes back
\* without its last entry.
_get_routes_Consumed(cache, map) ==
    IF cache # <<>> THEN SubSeq(cache[1], 1, Len(cache[1]) - 1) ELSE ComputeRoutes(map)

\* The route list computed anew at every call.
_get_routes_Uncached(cache, map) == ComputeRoutes(map)

\* Breadcrumb._get_routes.  The attribute _routes_cache is a list of at most one
\* element: empty while the attribute does not exist, else the cached route list.
_get_routes(cache, map) == IF cache # <<>> THEN cache[1] ELSE ComputeRoutes(map)

(***************************************************************************)
(* BreadcrumbItem and the dictionary breadcrumb_items                      *)
(***************************************************************************)

\* A text: a string, or a callable that returns `value` when it is called.
StaticText(s) == [callable |-> FALSE, value |-> s]

Producer(s) == [callable |-> TRUE, value |-> s]

\* BreadcrumbItem.__init__; an order is a list of at most one integer, empty for
\* None.
BreadcrumbItem(text, url, order, is_current_path) ==
    [text |-> text, url |-> url,
     order |-> IF order # None THEN order[1] ELSE 0,
     is_current_path |-> is_current_path]

\* The item of a url stays the one of the first route that has the url.
DictSet_FirstWins(items, item) ==
    IF \E i \in 1..Len(items) : items[i].url = item.url THEN items
    ELSE Append(items, item)

\* d[url] = item for a dictionary kept as the list of its values in insertion
\* order: an existing key keeps its place.
DictSet(items, item) ==
    IF \E i \in 1..Len(items) : items[i].url = item.url
    THEN [i \in 1..Len(items) |-> IF items[i].url = item.url THEN item ELSE items[i]]
    ELSE Append(items, item)

HasKey(items, url) == \E i \in 1..Len(items) : items[i].url = url

Lookup(items, url) == items[CHOOSE i \in 1..Len(items) : items[i].url = url]

\* endpoint.startswith("static")
IsStatic(endpoint) == StartsWith(endpoint, <<"s", "t", "a", "t", "i", "c">>)

\* One pass of the first loop of _build_breadcrumb_tree (lines 163-178).
RouteItem(route, metadata, current_path) ==
    LET decorated == route.endpoint \in DOMAIN metadata
        text == IF decorated THEN metadata[route.endpoint].text
                ELSE StaticText(_generate_default_text(route.url))
        order == IF decorated THEN metadata[route.endpoint].order ELSE <<0>>
    IN  BreadcrumbItem(text, route.url, order, route.url = current_path)

RECURSIVE CreateItems(_, _, _, _)
CreateItems(routes, metadata, current_path, items) ==
    IF routes = <<>> THEN items
    ELSE LET route == Head(routes)
         IN  IF "GET" \notin route.methods \/ IsStatic(route.endpoint)
             THEN CreateItems(Tail(routes), metadata, current_path, items)
             ELSE CreateItems(Tail(routes), metadata, current_path,
                              DictSet(items, RouteItem(route, metadata, current_path)))

\* No root item is made.
EnsureRoot_NoRoot(items, current_path) == items

\* Lines 184-190: make sure there is a root item.
EnsureRoot(items, current_path) ==
    IF ~HasKey(items, Root)
    THEN Append(items, BreadcrumbItem(StaticText(Home), Root, <<0>>, current_path = Root))
    ELSE items

(***************************************************************************)
(* Breadcrumb._build_breadcrumb_tree                                       *)
(***************************************************************************)

\* The walk that collects every path it visits, registered or not.
RECURSIVE WalkUp_EveryPath(_, _, _)
WalkUp_EveryPath(path, items, path_to_root) ==
    IF path = Root THEN path_to_root
    ELSE LET parent_path == _get_parent_url(path)
         IN  IF parent_path = path THEN Append(path_to_root, path)
             ELSE WalkUp_EveryPath(parent_path, items, Append(path_to_root, path))

\* Lines 214-221: the walk from the current path up to the root.
RECURSIVE WalkUp(_, _, _)
WalkUp(path, items, path_to_root) ==
    IF path = Root THEN path_to_root
    ELSE LET found == IF HasKey(items, path) THEN Append(path_to_root, path)
                      ELSE path_to_root
             parent_path == _get_parent_url(path)
         IN  IF parent_path = path THEN found
             ELSE WalkUp(parent_path, items, found)

\* Lines 215-221: the values the variable `path` takes at the head of the loop,
\* the one it leaves the loop with included.
RECURSIVE WalkTrace(_)
WalkTrace(path) ==
    IF path = Root THEN <<path>>
    ELSE LET parent_path == _get_parent_url(path)
         IN  IF parent_path = path THEN <<path>>
             ELSE <<path>> \o WalkTrace(parent_path)

\* The chain without the root.
PathToRoot_WithoutRoot(items, current_path) == WalkUp(current_path, items, <<>>)

\* Lines 205-225.
PathToRoot(items, current_path) ==
    LET walked == WalkUp(current_path, items, <<>>)
    IN  IF HasKey(items, Root) THEN Append(walked, Root) ELSE walked

\* item.text() if callable(item.text) else item.text
ResolveText(text) == text.value

\* Lines 243-247 and 259: is_child_map.get((url, current_path), False).
IsPruned(url, current_path) ==
    url # Root /\ url # current_path /\ _is_child_of(url, current_path)

\* The grouping loop without the test of line 252: the root is grouped too.
IsGrouped_WithRoot(item, current_path) == ~IsPruned(item.url, current_path)

\* Lines 251-260: whether the grouping loop appends a dictionary for the item.
IsGrouped(item, current_path) == item.url # Root /\ ~IsPruned(item.url, current_path)

\* The items the grouping loop keeps, in dictionary order.
GroupedItems(items, current_path) ==
    SelectSeq(items, LAMBDA item : IsGrouped(item, current_path))

\* Lines 263-271: the dictionary appended for an item.
ChildDict(item) ==
    [text |-> ResolveText(item.text), url |-> item.url, order |-> item.order,
     is_current_path |-> item.is_current_path, children |-> <<>>]

\* x < y for the sort key (x["order"], x["url"]).
KeyLess(x, y) ==
    \/ x.order < y.order
    \/ x.order = y.order /\ StrLess(x.url, y.url)

\* list.sort on a short list: each element is inserted after the elements that
\* are not greater than it (the sort is stable).
RECURSIVE InsertSorted(_, _)
InsertSorted(sorted, x) ==
    IF sorted = <<>> THEN <<x>>
    ELSE IF KeyLess(x, Head(sorted)) THEN <<x>> \o sorted
    ELSE <<Head(sorted)>> \o InsertSorted(Tail(sorted), x)

RECURSIVE SortFrom(_, _)
SortFrom(children, sorted) ==
    IF children = <<>> THEN sorted
    ELSE SortFrom(Tail(children), InsertSorted(sorted, Head(children)))

\* The lists left in the order of the dictionary, not sorted.
SortChildren_Unsorted(children) == children

\* Lines 274-276.
SortChildren(children) == SortFrom(children, <<>>)

\* Lines 209-212: parent_url_map, as the list of the parent urls of the items.
ParentUrlMap(items) == [i \in 1..Len(items) |-> _get_parent_url(items[i].url)]

\* The dictionaries appended to the list of parent_url, in dictionary order.
RECURSIVE ChildrenFrom(_, _, _, _, _)
ChildrenFrom(items, parent_url_map, current_path, parent_url, i) ==
    IF i > Len(items) THEN <<>>
    ELSE IF IsGrouped(items[i], current_path) /\ parent_url_map[i] = parent_url
         THEN <<ChildDict(items[i])>> \o
              ChildrenFrom(items, parent_url_map, current_path, parent_url, i + 1)
         ELSE ChildrenFrom(items, parent_url_map, current_path, parent_url, i + 1)

\* Lines 240-276: parent_to_children, a function from the parent urls that have
\* a list to that list.
ParentToChildren(items, current_path) ==
    LET parent_url_map == ParentUrlMap(items)
        parents == {parent_url_map[i] :
                      i \in {j \in 1..Len(items) : IsGrouped(items[j], current_path)}}
    IN  [parent_url \in parents |->
            SortChildren(ChildrenFrom(items, parent_url_map, current_path, parent_url, 1))]

\* The loop that never moves current_level down: every path is looked up among
\* the children of the root.
RECURSIVE Traverse_NoDescent(_, _, _, _)
Traverse_NoDescent(paths, children, parent_to_children, current_path) ==
    IF paths = <<>> THEN children
    ELSE LET path == Head(paths)
             attached == [i \in 1..Len(children) |->
                            IF children[i].url = path
                               /\ path \in DOMAIN parent_to_children
                               /\ path # current_path
                            THEN [children[i] EXCEPT
                                     !.children = parent_to_children[path]]
                            ELSE children[i]]
         IN  Traverse_NoDescent(Tail(paths), attached, parent_to_children,
                                current_path)

\* The assembly that gives every node its sibling group, on the path or not.
RECURSIVE Traverse_AllBranches(_, _, _, _)
Traverse_AllBranches(paths, children, parent_to_children, current_path) ==
    [i \in 1..Len(children) |->
        IF children[i].url \in DOMAIN parent_to_children
           /\ children[i].url # current_path
        THEN [children[i] EXCEPT !.children =
                 Traverse_AllBranches(paths, parent_to_children[children[i].url],
                                      parent_to_children, current_path)]
        ELSE children[i]]

\* Lines 293-309 from the position `paths` of the loop on: the list `children`
\* of current_level after the loop.  A child dictionary is shared by reference
\* between parent_to_children and the result, and current_level only moves down,
\* so what the rest of the loop assigns below a child found here is assigned
\* inside that child.
RECURSIVE Traverse(_, _, _, _)
Traverse(paths, children, parent_to_children, current_path) ==
    IF paths = <<>> THEN children
    ELSE LET path == Head(paths)
         IN  IF \E i \in 1..Len(children) : children[i].url = path
             THEN LET found == CHOOSE i \in 1..Len(children) : children[i].url = path
                      below == IF path \in DOMAIN parent_to_children
                                  /\ path # current_path
                               THEN parent_to_children[path]
                               ELSE children[found].children
                  IN  [children EXCEPT ![found].children =
                          Traverse(Tail(paths), below, parent_to_children,
                                   current_path)]
             ELSE Traverse(Tail(paths), children, parent_to_children, current_path)

Reverse(s) == [i \in 1..Len(s) |-> s[Len(s) + 1 - i]]

\* The root dictionary filled from the first item of the dictionary.
Assemble_FirstItem(items, parent_to_children, path_to_root, current_path) ==
    LET root_item == Head(items)
        top == IF Root \in DOMAIN parent_to_children THEN parent_to_children[Root]
               ELSE <<>>
    IN  [text |-> ResolveText(root_item.text), url |-> Root,
         order |-> root_item.order,
         is_current_path |-> root_item.is_current_path,
         children |-> Traverse(Tail(Reverse(path_to_root)), top, parent_to_children,
                               current_path)]

\* Lines 278-311.
Assemble(items, parent_to_children, path_to_root, current_path) ==
    LET root_item == Lookup(items, Root)
        top == IF Root \in DOMAIN parent_to_children THEN parent_to_children[Root]
               ELSE <<>>
    IN  [text |-> ResolveText(root_item.text), url |-> Root,
         order |-> root_item.order,
         is_current_path |-> root_item.is_current_path,
         children |-> Traverse(Tail(Reverse(path_to_root)), top, parent_to_children,
                               current_path)]

EmptyResult == [kind |-> "empty", tree |-> <<>>]

TreeResult(dict) == [kind |-> "tree", tree |-> <<dict>>]

\* An exception that leaves the builder.
Raised(error) == [kind |-> error, tree |-> <<>>]

\* The root with the top-level items as its children.
RootOnly_TopLevel(items) ==
    LET root_item == Lookup(items, Root)
        top == SelectSeq(items, LAMBDA item :
                   item.url # Root /\ _get_parent_url(item.url) = Root)
    IN  [text |-> ResolveText(root_item.text), url |-> Root,
         order |-> root_item.order, is_current_path |-> TRUE,
         children |-> SortChildren([i \in 1..Len(top) |-> ChildDict(top[i])])]

\* Lines 193-203: the dictionary returned for the root path.
RootOnly(items) ==
    LET root_item == Lookup(items, Root)
    IN  [text |-> ResolveText(root_item.text), url |-> Root,
         order |-> root_item.order, is_current_path |-> TRUE, children |-> <<>>]

\* Lines 229-237: the dictionary of the current page alone.
SingleDict(item) ==
    [text |-> ResolveText(item.text), url |-> item.url, order |-> item.order,
     is_current_path |-> TRUE, children |-> <<>>]

\* The urls whose text was called, in call order.
Called(items) ==
    LET callables == SelectSeq(items, LAMBDA item : item.text.callable)
    IN  [i \in 1..Len(callables) |-> callables[i].url]

\* The rule on the children of the current path applied with the request path
\* as sent, trailing slash kept, in place of current_path.
GroupAndAssemble_RawPath(items, path_to_root, current_path) ==
    Assemble(items, ParentToChildren(items, current_path \o <<"/">>), path_to_root,
             current_path \o <<"/">>)

\* Lines 240-311: the grouping into parent_to_children and the assembly of the
\* result along path_to_root.
GroupAndAssemble(items, path_to_root, current_path) ==
    Assemble(items, ParentToChildren(items, current_path), path_to_root, current_path)

\* The walk of a build that returns before line 205.
NoWalk == [trace |-> <<>>, path_to_root |-> <<>>]

\* Lines 205-225 as the build ran them: the trace of the loop and the list
\* path_to_root after line 225.
Walked(items, current_path) ==
    [trace |-> WalkTrace(current_path), path_to_root |-> PathToRoot(items, current_path)]

\* The value returned (or the exception raised), the urls whose text was called,
\* in call order, and the walk.
_build_breadcrumb_tree(routes, metadata, current_path) ==
    LET created == CreateItems(routes, metadata, current_path, <<>>)
        items == EnsureRoot(created, current_path)
        path_to_root == PathToRoot(items, current_path)
        grouped == GroupedItems(items, current_path)
    IN  IF created = <<>> THEN [value |-> EmptyResult, called |-> <<>>, walk |-> NoWalk]
        ELSE IF current_path = Root THEN
            IF ~HasKey(items, Root)
            THEN [value |-> Raised("KeyError"), called |-> <<>>, walk |-> NoWalk]
            ELSE [value |-> TreeResult(RootOnly(items)),
                  called |-> Called(<<Lookup(items, Root)>>), walk |-> NoWalk]
        ELSE IF path_to_root = <<>> THEN
            IF HasKey(items, current_path)
            THEN [value |-> TreeResult(SingleDict(Lookup(items, current_path))),
                  called |-> Called(<<Lookup(items, current_path)>>),
                  walk |-> Walked(items, current_path)]
            ELSE [value |-> EmptyResult, called |-> <<>>,
                  walk |-> Walked(items, current_path)]
        ELSE IF ~HasKey(items, Root)
            THEN [value |-> Raised("KeyError"), called |-> Called(grouped),
                  walk |-> Walked(items, current_path)]
        ELSE [value |-> TreeResult(GroupAndAssemble(items, path_to_root, current_path)),
              called |-> Called(grouped) \o Called(<<Lookup(items, Root)>>),
              walk |-> Walked(items, current_path)]

\* Breadcrumb.get_breadcrumb_tree (lines 136-142) for a request of path `path`.
NormalizePath(path) == IF RStripSlash(path) = <<>> THEN Root ELSE RStripSlash(path)

(***************************************************************************)
(* The applications and the requests of the model                          *)
(***************************************************************************)

\* The number of routes an application registers besides the static route.
MaxRoutes == 4

\* The orders a decorator passes are 0..MaxOrder.
MaxOrder == 1

\* The number of requests an application serves.
MaxBuilds == 2

\* The number of routes registered one by one, between the requests.
MaxLate == 2

\* The number of requests served at the same time.
MaxThreads == 2

Get == {"GET", "HEAD", "OPTIONS"}

\* The route Flask registers for the static folder when the application is
\* constructed.
StaticRule ==
    [rule |-> <<"/", "s", "t", "a", "t", "i", "c", "/", "<", "p", "a", "t", "h", ":",
                "f", "i", "l", "e", "n", "a", "m", "e", ">">>,
     endpoint |-> <<"s", "t", "a", "t", "i", "c">>, methods |-> Get]

\* The views an application may register, in the order of their registration:
\* the rule, the endpoint and the methods given to app.route (the endpoint is the
\* name of the view function unless app.route is given another), the name of the
\* view function, and the text given to the breadcrumb decorator (a list of at
\* most one text, empty for a view that is not decorated); `ordered` tells
\* whether the decorator is given an order.
Views ==
    << [rule |-> <<"/", "b">>, name |-> <<"b">>, endpoint |-> <<"b">>, methods |-> Get,
        text |-> <<StaticText(<<"B">>)>>, ordered |-> TRUE],
       [rule |-> <<"/", "a", "/", "b", "/", "c">>, name |-> <<"a", "b", "c">>,
        endpoint |-> <<"a", "b", "c">>, methods |-> Get,
        text |-> <<Producer(<<"A", "B", "C">>)>>, ordered |-> FALSE],
       [rule |-> <<"/", "a", "-", "b">>, name |-> <<"a", "_", "b">>,
        endpoint |-> <<"a", "_", "b">>, methods |-> Get,
        text |-> <<>>, ordered |-> FALSE],
       [rule |-> <<"/", "a", "/", "c", "/">>, name |-> <<"a", "c">>,
        endpoint |-> <<"a", "c">>, methods |-> Get,
        text |-> <<>>, ordered |-> FALSE],
       [rule |-> <<"/", "a", "/", "b">>, name |-> <<"a", "b">>,
        endpoint |-> <<"a", "b">>, methods |-> Get,
        text |-> <<StaticText(<<"A", "B">>)>>, ordered |-> FALSE],
       [rule |-> <<"/">>, name |-> <<"i", "n", "d", "e", "x">>,
        endpoint |-> <<"i", "n", "d", "e", "x">>, methods |-> Get,
        text |-> <<Producer(<<"S", "t", "a", "r", "t">>)>>, ordered |-> FALSE],
       [rule |-> <<"/", "a">>, name |-> <<"a">>, endpoint |-> <<"a">>, methods |-> Get,
        text |-> <<StaticText(<<"A">>)>>, ordered |-> TRUE],
       [rule |-> <<"/", "c">>, name |-> <<"p", "o", "s", "t">>,
        endpoint |-> <<"p", "o", "s", "t">>, methods |-> {"POST", "OPTIONS"},
        text |-> <<StaticText(<<"P">>)>>, ordered |-> FALSE],
       [rule |-> <<"/", "a", "/", "<", "x", ">">>, name |-> <<"a", "x">>,
        endpoint |-> <<"a", "x">>, methods |-> Get,
        text |-> <<Producer(<<"X">>)>>, ordered |-> FALSE],
       [rule |-> <<"/", "t">>, name |-> <<"t">>, endpoint |-> <<"t", "_", "0">>,
        methods |-> Get,
        text |-> <<StaticText(<<"T", "o", "p">>)>>, ordered |-> FALSE],
       [rule |-> <<"/", "s">>, name |-> <<"s", "t", "a", "t", "i", "c", "s">>,
        endpoint |-> <<"s", "t", "a", "t", "i", "c", "s">>, methods |-> Get,
        text |-> <<>>, ordered |-> FALSE] >>

\* The paths of the requests served.
RequestPaths ==
    { <<"/">>, <<"/", "a">>, <<"/", "a", "/", "b", "/">>,
      <<"/", "a", "/", "b", "/", "c">>, <<"/", "a", "/", "c">>,
      <<"/", "a", "/", "/", "b">>, <<"/", "x">> }

\* The elements of the set of indexes S in increasing order.
RECURSIVE Ascending(_)
Ascending(S) ==
    IF S = {} THEN <<>>
    ELSE LET least == CHOOSE i \in S : \A j \in S : i <= j
         IN  <<least>> \o Ascending(S \ {least})

\* The value `result` holds before a request is served.
NoResult == [kind |-> "none", tree |-> <<>>]

\* The body of the decorator of Breadcrumb.__call__ (lines 110-117): the entry
\* stored under the name of the view function.
Metadata(text, order) == [text |-> text, order |-> order, max_depth |-> None]

\* Breadcrumb.__call__ (lines 110-117) for the views `chosen`, decorated with the
\* orders `orders`.
Decorate(chosen, orders) ==
    [name \in {Views[i].name : i \in {j \in chosen : Views[j].text # <<>>}} |->
        LET i == CHOOSE j \in chosen : Views[j].name = name
        IN  Metadata(Views[i].text[1],
                     IF Views[i].ordered THEN <<orders[i]>> ELSE None)]

\* app.route for a view: the rule added to the url map.
Rule(view) == [rule |-> view.rule, endpoint |-> view.endpoint, methods |-> view.methods]

\* The requests served at the same time, and a request that has not begun.
Threads == 1..MaxThreads

Idle == [pc |-> "idle", path |-> <<>>, routes |-> <<>>, i |-> 0, computed |-> FALSE]

\* Nothing is cached and no request was served.
Fresh ==
    /\ routes_cache = <<>>
    /\ request_path = <<>>
    /\ result = NoResult
    /\ invoked = <<>>
    /\ walk = NoWalk
    /\ builds = 0
    /\ threads = [t \in Threads |-> Idle]

\* An application: the static route, then the chosen views; nothing is cached
\* and no request was served.
Init ==
    \E chosen \in SUBSET (1..Len(Views)) :
        \E orders \in [{i \in chosen : Views[i].ordered} -> 0..MaxOrder] :
          LET registered == Ascending(chosen)
          IN  /\ Cardinality(chosen) <= MaxRoutes
              /\ url_map = <<StaticRule>> \o
                     [k \in 1..Len(registered) |-> Rule(Views[registered[k]])]
              /\ breadcrumb_metadata = Decorate(chosen, orders)
              /\ Fresh

\* A request of path `path` is served and the template calls breadcrumb_tree():
\* Breadcrumb.get_breadcrumb_tree, with the call of _get_routes that caches the
\* route list.
GetBreadcrumbTree(path) ==
    \E routes \in {_get_routes(routes_cache, url_map)} :
        \E built \in {_build_breadcrumb_tree(routes, breadcrumb_metadata,
                                              NormalizePath(path))} :
            /\ builds < MaxBuilds
            /\ routes_cache' = <<routes>>
            /\ request_path' = path
            /\ result' = built.value
            /\ invoked' = built.called
            /\ walk' = built.walk
            /\ builds' = builds + 1
            /\ UNCHANGED <<url_map, breadcrumb_metadata, threads>>

Next == \E path \in RequestPaths : GetBreadcrumbTree(path)

Spec == Init /\ [][Next]_vars

(***************************************************************************)
(* Routes registered between the requests                                  *)
(***************************************************************************)

\* The views registered one by one: "/b", "/a/b", "/" and "/a".
SmallViews == {1, 5, 6, 7}

\* The application as Flask constructs it: the static route alone, no view
\* decorated.
InitLate ==
    /\ url_map = <<StaticRule>>
    /\ breadcrumb_metadata = Decorate({}, <<>>)
    /\ Fresh

\* The view Views[i] is defined: the breadcrumb decorator stores its metadata
\* (lines 110-117) and app.route adds its rule to the url map.
AddUrlRule(i, order) ==
    LET view == Views[i]
        entry == Metadata(view.text[1], IF view.ordered THEN <<order>> ELSE None)
    IN  /\ Len(url_map) <= MaxLate
        /\ \A k \in 1..Len(url_map) : url_map[k].endpoint # view.endpoint
        /\ url_map' = Append(url_map, Rule(view))
        /\ breadcrumb_metadata' =
              IF view.text = <<>> THEN breadcrumb_metadata
              ELSE [name \in DOMAIN breadcrumb_metadata \cup {view.name} |->
                      IF name = view.name THEN entry ELSE breadcrumb_metadata[name]]
        /\ UNCHANGED <<routes_cache, request_path, result, invoked, walk, builds,
                       threads>>

NextLate ==
    \/ \E path \in RequestPaths : GetBreadcrumbTree(path)
    \/ \E i \in SmallViews : \E order \in 0..MaxOrder : AddUrlRule(i, order)

SpecLate == InitLate /\ [][NextLate]_vars

(***************************************************************************)
(* Requests served at the same time: Breadcrumb._get_routes step by step   *)
(***************************************************************************)

\* The paths of the requests served at the same time.
ConcurrentPaths == { <<"/">>, <<"/", "a">> }

\* An application of one view; nothing is cached and no request has begun.
InitConcurrent ==
    \E i \in SmallViews : \E order \in 0..MaxOrder :
        /\ url_map = <<StaticRule, Rule(Views[i])>>
        /\ breadcrumb_metadata = Decorate({i}, [j \in {i} |-> order])
        /\ Fresh

\* The attribute _routes_cache filled in place while the list is computed.
CacheWhileIterating_InPlace(cache, routes) == <<routes>>

\* Lines 347-362: `routes` is a local list; the attribute _routes_cache is not
\* assigned before line 365.
CacheWhileIterating(cache, routes) == cache

\* A request of path `path` begins: get_breadcrumb_tree calls
\* _build_breadcrumb_tree, which calls _get_routes.
Begin(t, path) ==
    /\ threads[t].pc = "idle"
    /\ threads' = [threads EXCEPT ![t] = [Idle EXCEPT !.pc = "hasattr", !.path = path]]
    /\ UNCHANGED <<url_map, breadcrumb_metadata, routes_cache, request_path, result,
                   invoked, walk, builds>>

\* Lines 344-347: the cached list is returned, or the computation begins.
CheckCache(t) ==
    /\ threads[t].pc = "hasattr"
    /\ threads' = [threads EXCEPT ![t] =
          IF routes_cache # <<>>
          THEN [@ EXCEPT !.pc = "build", !.routes = routes_cache[1]]
          ELSE [@ EXCEPT !.pc = "iter", !.routes = <<>>, !.i = 1, !.computed = TRUE]]
    /\ UNCHANGED <<url_map, breadcrumb_metadata, routes_cache, request_path, result,
                   invoked, walk, builds>>

\* Lines 348-362: one pass of the loop over the rules.
IterRule(t) ==
    LET appended == Append(threads[t].routes, RouteEntry(url_map[threads[t].i]))
    IN  /\ threads[t].pc = "iter"
        /\ threads[t].i <= Len(url_map)
        /\ threads' = [threads EXCEPT ![t] =
              [@ EXCEPT !.routes = appended, !.i = @ + 1]]
        /\ routes_cache' = CacheWhileIterating(routes_cache, appended)
        /\ UNCHANGED <<url_map, breadcrumb_metadata, request_path, result, invoked,
                       walk, builds>>

\* Lines 365-366: the list is cached and returned.
StoreCache(t) ==
    /\ threads[t].pc = "iter"
    /\ threads[t].i > Len(url_map)
    /\ routes_cache' = <<threads[t].routes>>
    /\ threads' = [threads EXCEPT ![t] = [@ EXCEPT !.pc = "build"]]
    /\ UNCHANGED <<url_map, breadcrumb_metadata, request_path, result, invoked, walk,
                   builds>>

\* Lines 156-311: the tree is built from the list _get_routes returned.
BuildTree(t) ==
    /\ threads[t].pc = "build"
    /\ \E built \in {_build_breadcrumb_tree(threads[t].routes, breadcrumb_metadata,
                                              NormalizePath(threads[t].path))} :
          /\ threads' = [threads EXCEPT ![t] = [@ EXCEPT !.pc = "done"]]
          /\ request_path' = threads[t].path
          /\ result' = built.value
          /\ invoked' = built.called
          /\ walk' = built.walk
          /\ builds' = builds + 1
          /\ UNCHANGED <<url_map, breadcrumb_metadata, routes_cache>>

NextConcurrent ==
    \E t \in Threads :
        \/ \E path \in ConcurrentPaths : Begin(t, path)
        \/ CheckCache(t)
        \/ IterRule(t)
        \/ StoreCache(t)
        \/ BuildTree(t)

SpecConcurrent == InitConcurrent /\ [][NextConcurrent]_vars

(***************************************************************************)
(* What the properties speak about                                         *)
(***************************************************************************)

\* A request was served: `result` is what get_breadcrumb_tree returned for
\* request_path.
Served == result.kind # "none"

HasTree == result.kind = "tree"

\* The current path of the request served: its path without the trailing
\* slashes, "/" when nothing is left.
CurrentPath ==
    LET kept == {k \in 1..Len(request_path) : request_path[k] # "/"}
    IN  IF kept = {} THEN Root
        ELSE SubSeq(request_path, 1, CHOOSE k \in kept : \A j \in kept : j <= k)

\* The catalog of the request served, and the urls of its candidate routes: the
\* routes that allow GET and are not the static route.
Catalog == routes_cache[1]

RegisteredUrls ==
    {Catalog[i].url : i \in {j \in 1..Len(Catalog) :
        "GET" \in Catalog[j].methods /\ ~IsStatic(Catalog[j].endpoint)}}

\* The dictionaries of a tree.
RECURSIVE NodesOf(_)
NodesOf(dict) ==
    {dict} \cup UNION {NodesOf(dict.children[i]) : i \in 1..Len(dict.children)}

TreeNodes == IF HasTree THEN NodesOf(result.tree[1]) ELSE {}

\* url lies strictly below path: it starts with path + "/".
StrictlyBelow(url, path) == StartsWith(url, path \o <<"/">>)

\* path is "/" or a proper ancestor of url by its segments.
IsAncestor(path, url) == path # url /\ (path = Root \/ StrictlyBelow(url, path))

\* The url without its last segment, "/" for a url of one segment.
SyntacticParent(url) ==
    LET last == CHOOSE k \in 1..Len(url) :
                    url[k] = "/" /\ \A j \in (k + 1)..Len(url) : url[j] # "/"
    IN  IF last = 1 THEN Root ELSE SubSeq(url, 1, last - 1)

ChildUrls(dict) == {dict.children[i].url : i \in 1..Len(dict.children)}

(***************************************************************************)
(* Properties                                                              *)
(***************************************************************************)

\* C1: in every tree returned, the children of every node are sorted by order
\* ascending and, among equal orders, by url ascending.
C1_ChildrenSorted ==
    \A dict \in TreeNodes :
        \A i, j \in 1..Len(dict.children) :
            i < j =>
                \/ dict.children[i].order < dict.children[j].order
                \/ /\ dict.children[i].order = dict.children[j].order
                   /\ StrLess(dict.children[i].url, dict.children[j].url)

\* A tree with a node of three children, two of them of the same order and two
\* of different orders.
C1_Witness ==
    \E dict \in TreeNodes :
        /\ Len(dict.children) >= 3
        /\ \E i, j \in 1..Len(dict.children) :
              i # j /\ dict.children[i].order = dict.children[j].order
        /\ \E i, j \in 1..Len(dict.children) :
              dict.children[i].order # dict.children[j].order

C3_SingleCurrentMarker ==
    (Served /\ CurrentPath \in RegisteredUrls) =>
        /\ HasTree
        /\ Cardinality({dict \in TreeNodes : dict.is_current_path}) = 1
        /\ \A dict \in TreeNodes : dict.is_current_path => dict.url = CurrentPath

C5_SiblingInclusion ==
    \A dict \in TreeNodes :
        (IsAncestor(dict.url, CurrentPath) /\ dict.url # CurrentPath) =>
            /\ ChildUrls(dict) =
                   {url \in RegisteredUrls :
                       /\ url # Root
                       /\ SyntacticParent(url) = dict.url
                       /\ ~StrictlyBelow(url, CurrentPath)}
            /\ Cardinality(ChildUrls(dict)) = Len(dict.children)

\* The registered urls that are proper ancestors of url, "/" included.
RegisteredAncestors(url) == {path \in RegisteredUrls : IsAncestor(path, url)}

\* The proper ancestors of url by its segments, "/" included.
Ancestors(url) ==
    {Root} \cup {SubSeq(url, 1, k - 1) : k \in {j \in 3..Len(url) : url[j] = "/"}}

\* The tree below `dict` holds a node of url `url`, reached through nodes that
\* are ancestors of `url`, and that node is marked is_current_path.
RECURSIVE ChainTo(_, _)
ChainTo(dict, url) ==
    IF dict.url = url THEN dict.is_current_path
    ELSE /\ IsAncestor(dict.url, url)
         /\ \E i \in 1..Len(dict.children) : ChainTo(dict.children[i], url)

\* The number of nodes from `dict` down to the node of url `url`, 0 when the
\* node is not below `dict`.
RECURSIVE DepthOf(_, _)
DepthOf(dict, url) ==
    IF dict.url = url THEN 1
    ELSE IF \E i \in 1..Len(dict.children) : DepthOf(dict.children[i], url) > 0
         THEN 1 + DepthOf(dict.children[CHOOSE i \in 1..Len(dict.children) :
                                           DepthOf(dict.children[i], url) > 0], url)
         ELSE 0

\* C6: when the current path and all of its proper ancestors, "/" included, are
\* registered, the tree holds the chain from the root to the node of the current
\* path, one node for each ancestor, each a child of the one before, and the
\* last node is the one marked is_current_path.
C6_FullChain ==
    (Served /\ CurrentPath \in RegisteredUrls
            /\ Ancestors(CurrentPath) \subseteq RegisteredUrls) =>
        /\ HasTree
        /\ result.tree[1].url = Root
        /\ ChainTo(result.tree[1], CurrentPath)
        /\ DepthOf(result.tree[1], CurrentPath) =
              Cardinality(Ancestors(CurrentPath) \cup {CurrentPath})
        /\ \A dict \in TreeNodes : dict.is_current_path => dict.url = CurrentPath

\* A current path of three segments, registered with its three ancestors, was
\* built.
C6_Witness ==
    /\ Served /\ CurrentPath \in RegisteredUrls
    /\ Ancestors(CurrentPath) \subseteq RegisteredUrls
    /\ Cardinality(Ancestors(CurrentPath)) >= 3
    /\ HasTree

C8_SkippedLevel ==
    (Served /\ CurrentPath \in RegisteredUrls
            /\ SyntacticParent(CurrentPath) # Root
            /\ SyntacticParent(CurrentPath) \notin RegisteredUrls) =>
        LET known == RegisteredAncestors(CurrentPath) \cup {Root}
            nearest == CHOOSE path \in known :
                          \A other \in known : Len(other) <= Len(path)
        IN  /\ HasTree
            /\ \E dict \in TreeNodes :
                  dict.url = nearest /\ CurrentPath \in ChildUrls(dict)

\* The current path is not registered and none of its ancestors other than "/"
\* is.
Unreachable ==
    /\ Served
    /\ CurrentPath \notin RegisteredUrls
    /\ RegisteredAncestors(CurrentPath) \subseteq {Root}

C10_NeverRaises == Served => result.kind \in {"tree", "empty"}

\* A path with an empty segment, which matches no route, was built for a catalog
\* with candidate routes of which none is "/".
C10_Witness ==
    /\ Served
    /\ RegisteredUrls # {} /\ Root \notin RegisteredUrls
    /\ CurrentPath \notin RegisteredUrls
    /\ \E k \in 2..Len(request_path) : request_path[k - 1] = "/" /\ request_path[k] = "/"

\* C11: with the url map and the metadata fixed, the result of a build for a
\* path is the result of the first build of a new extension for that path,
\* whatever builds were served before it: nothing an earlier build leaves behind
\* changes a later result.
C11_Deterministic ==
    Served =>
        result = _build_breadcrumb_tree(ComputeRoutes(url_map), breadcrumb_metadata,
                                        NormalizePath(request_path)).value

\* A second build returned a tree with nodes below the root.
C11_Witness ==
    /\ builds >= 2
    /\ HasTree
    /\ result.tree[1].children # <<>>

\* The view registered by a rule of the url map, the static route excepted.
ViewOf(rule) == Views[CHOOSE i \in 1..Len(Views) : Views[i].endpoint = rule.endpoint]

\* The rules of the url map that give a node its label: for each canonical url,
\* the last rule that allows GET and is not the static route.
LabelRules ==
    {k \in 2..Len(url_map) :
        /\ "GET" \in url_map[k].methods
        /\ \A j \in (k + 1)..Len(url_map) :
              "GET" \in url_map[j].methods =>
                  Canonical(url_map[j].rule) # Canonical(url_map[k].rule)}

\* C12 as stated: the node of the canonical url of a route whose view function
\* was decorated with a label and an order carries that label (the value of the
\* producer, for a producer) and that order, 0 when none was given, whatever
\* endpoint the route was registered under.
C12_DecoratedLabel ==
    \A k \in LabelRules :
        LET view == ViewOf(url_map[k])
            given == breadcrumb_metadata[view.name]
        IN  view.text # <<>> =>
                \A dict \in TreeNodes :
                    dict.url = Canonical(url_map[k].rule) =>
                        /\ dict.text = given.text.value
                        /\ dict.order = IF given.order = None THEN 0 ELSE given.order[1]

\* The number of nodes of url `url` in the tree below `dict`, `dict` included.
RECURSIVE Occurrences(_, _)
Occurrences(dict, url) ==
    LET below == [i \in 1..Len(dict.children) |-> Occurrences(dict.children[i], url)]
        sum[i \in 0..Len(below)] == IF i = 0 THEN 0 ELSE sum[i - 1] + below[i]
    IN  (IF dict.url = url THEN 1 ELSE 0) + sum[Len(below)]

\* The candidate routes of the catalog that have the canonical url `url`, by
\* their position in the catalog.
RoutesOf(url) ==
    {j \in 1..Len(Catalog) :
        /\ "GET" \in Catalog[j].methods
        /\ ~IsStatic(Catalog[j].endpoint)
        /\ Catalog[j].url = url}

\* The label and the order the metadata give the route at position j of the
\* catalog.
Given(j) ==
    LET item == RouteItem(Catalog[j], breadcrumb_metadata, CurrentPath)
    IN  [text |-> item.text.value, order |-> item.order]

Last(S) == CHOOSE j \in S : \A k \in S : k <= j

\* C13: when several candidate routes of the catalog have the same canonical
\* url, the tree holds at most one node of that url, and the node carries the
\* label and the order of the last of these routes.
C13_LastRegistrationWins ==
    HasTree =>
        \A url \in RegisteredUrls :
            Cardinality(RoutesOf(url)) >= 2 =>
                /\ Occurrences(result.tree[1], url) <= 1
                /\ \A dict \in TreeNodes :
                      dict.url = url =>
                          /\ dict.text = Given(Last(RoutesOf(url))).text
                          /\ dict.order = Given(Last(RoutesOf(url))).order

\* The tree holds the node of a url that two routes have, with different labels
\* and different orders.
C13_Witness ==
    /\ HasTree
    /\ \E url \in RegisteredUrls :
          /\ \E j, k \in RoutesOf(url) :
                Given(j).text # Given(k).text /\ Given(j).order # Given(k).order
          /\ \E dict \in TreeNodes : dict.url = url /\ dict.is_current_path

\* The canonical urls of the routes of the application's views that allow GET:
\* every rule of the url map but the static route Flask adds.
ApplicationUrls ==
    {Canonical(url_map[k].rule) : k \in {j \in 2..Len(url_map) :
        "GET" \in url_map[j].methods}}

\* C14 as stated: a node of a tree is the root or the node of a route of an
\* application view that allows GET, never the node of the static route or of a
\* route without GET; and every route of an application view that allows GET is
\* a candidate whatever its endpoint is: a build for a path below the root
\* returns a tree, and the root has a child for every such route of one segment
\* that is not below the current path.
C14_Candidates ==
    Served =>
        /\ \A dict \in TreeNodes : dict.url = Root \/ dict.url \in ApplicationUrls
        /\ \A url \in ApplicationUrls :
              (/\ CurrentPath # Root
               /\ url # Root
               /\ SyntacticParent(url) = Root
               /\ ~StrictlyBelow(url, CurrentPath)) =>
                  HasTree /\ url \in ChildUrls(result.tree[1])

\* The canonical urls of the rules added to the url map after the catalog was
\* computed, those of the candidate routes of the catalog excepted.
LateUrls ==
    IF routes_cache = <<>> THEN {}
    ELSE {Canonical(url_map[k].rule) : k \in (Len(Catalog) + 1)..Len(url_map)}
             \ RegisteredUrls

HaveRoutes == {t \in Threads : threads[t].pc \in {"build", "done"}}

\* C16: with builds that overlap while the route list is not cached, the list
\* _get_routes returns to a build, computed by the build or read from the cache,
\* is the whole list of the entries of the url map, the cache never holds
\* anything else, and it holds that list as soon as one build has its list.
C16_ConsistentCatalog ==
    /\ \A t \in HaveRoutes : threads[t].routes = ComputeRoutes(url_map)
    /\ routes_cache # <<>> => routes_cache[1] = ComputeRoutes(url_map)
    /\ HaveRoutes # {} => routes_cache = <<ComputeRoutes(url_map)>>

\* Every request is served; two of them computed the list, each finding no
\* cache.
C16_Witness ==
    /\ \A t \in Threads : threads[t].pc = "done"
    /\ \E t, u \in Threads : t # u /\ threads[t].computed /\ threads[u].computed
    /\ HasTree

\* The item the builder makes for the url of a candidate route: the item of the
\* last route that has the url.
ItemOf(url) == RouteItem(Catalog[Last(RoutesOf(url))], breadcrumb_metadata, CurrentPath)

\* The number of calls of the text of the item of `url` during the build.
Calls(url) == Cardinality({i \in 1..Len(invoked) : invoked[i] = url})

\* C17: during a build no producer is called twice, and the node of a route
\* whose text is a producer carries the value of the one call of the producer.
C17_InvokedOnce ==
    Served =>
        /\ \A url \in RegisteredUrls \cup {Root} : Calls(url) <= 1
        /\ \A dict \in TreeNodes :
              (dict.url \in RegisteredUrls /\ ItemOf(dict.url).text.callable) =>
                  /\ Calls(dict.url) = 1
                  /\ dict.text = ItemOf(dict.url).text.value

\* A tree for a path below the root whose root and one more node are labelled by
\* producers, both called.
C17_Witness ==
    /\ HasTree /\ CurrentPath # Root
    /\ Root \in RegisteredUrls /\ ItemOf(Root).text.callable /\ Calls(Root) = 1
    /\ \E dict \in TreeNodes :
          /\ dict.url # Root
          /\ ItemOf(dict.url).text.callable
          /\ Calls(dict.url) = 1

\* C18: in every tree, a node that has children is "/" or a proper ancestor of
\* the current path: a node off the chain of the current path has none.
C18_ChildrenOnChainOnly ==
    \A dict \in TreeNodes :
        dict.children # <<>> => dict.url \in Ancestors(CurrentPath)

\* The tree holds a node off the chain of the current path, next to a node of
\* the chain that has children, and a route below the node off the chain is
\* registered.
C18_Witness ==
    /\ \E dict \in TreeNodes :
          /\ dict.url \notin Ancestors(CurrentPath) \cup {CurrentPath}
          /\ \E url \in RegisteredUrls : url # dict.url /\ SyntacticParent(url) = dict.url
    /\ \E dict \in TreeNodes : dict.url # Root /\ dict.children # <<>>

\* The number of segments of a path: the number of its "/" before its last
\* character other than "/", 0 for "/".
SegmentCount(path) ==
    LET kept == {k \in 1..Len(path) : path[k] # "/"}
        last == IF kept = {} THEN 0 ELSE CHOOSE k \in kept : \A j \in kept : j <= k
    IN  Cardinality({k \in 1..last : path[k] = "/"})

\* C19: the walk of a build for a path below the root starts at the current
\* path, moves at every step to a path of strictly fewer segments, and ends at
\* "/" or at a path that is its own parent; the chain it collects ends with "/",
\* lists besides "/" only registered urls, the current path first when it is
\* registered, each the current path or an ancestor of it, from the longest to
\* the shortest.
C19_WalkTerminates ==
    (Served /\ RegisteredUrls # {} /\ CurrentPath # Root) =>
        LET trace == walk.trace
            chain == walk.path_to_root
        IN  /\ trace # <<>> /\ trace[1] = CurrentPath
            /\ \A i \in 1..(Len(trace) - 1) :
                  SegmentCount(trace[i + 1]) < SegmentCount(trace[i])
            /\ \/ trace[Len(trace)] = Root
               \/ _get_parent_url(trace[Len(trace)]) = trace[Len(trace)]
            /\ chain # <<>> /\ chain[Len(chain)] = Root
            /\ \A i \in 1..Len(chain) :
                  /\ chain[i] \in RegisteredUrls \cup {Root}
                  /\ chain[i] = CurrentPath \/ IsAncestor(chain[i], CurrentPath)
            /\ \A i, j \in 1..Len(chain) :
                  i < j => SegmentCount(chain[j]) < SegmentCount(chain[i])
            /\ CurrentPath \in RegisteredUrls => chain[1] = CurrentPath

\* A walk of four paths that passed a path that is not registered and collected
\* two registered urls and "/".
C19_Witness ==
    /\ Served /\ RegisteredUrls # {} /\ CurrentPath # Root
    /\ Len(walk.trace) >= 4
    /\ Len(walk.path_to_root) >= 3
    /\ \E i \in 1..Len(walk.trace) : walk.trace[i] \notin RegisteredUrls \cup {Root}

\* C20 as stated: the text of an item is called during a build only if the tree
\* returned holds the node of the item.
C20_InvokedOnlyInTree ==
    Served =>
        \A i \in 1..Len(invoked) : \E dict \in TreeNodes : dict.url = invoked[i]

====
